---------------------------- MODULE Spec2Model ----------------------------
(***************************************************************************)
(* A model of the grid-emulation repository:                               *)
(*   - src/autoencoder_jax/autoencoder.py : train_step, eval_model,        *)
(*     train_epoch and the epoch loop of train_and_evaluate (early         *)
(*     stopping, learning-rate reduction, checkpointing);                  *)
(*   - src/grids.py : LHGridSpectra's wavelength filter and                *)
(*     SpectralDatasetSynthesizer (normalisation, splits, inverses).       *)
(*                                                                         *)
(* Three specifications share the module: Spec/LiveSpec (the trainer),     *)
(* BatchSpec (batch construction of train_epoch) and DataSpec (datasets).  *)
(***************************************************************************)
EXTENDS Integers, Sequences, FiniteSets, TLC

VARIABLES
    \* ---- trainer (train_and_evaluate) ----
    cfg,                   \* the arguments of train_and_evaluate
    state,                 \* the TrainState
    pc,                    \* "train" | "check" | "done" | "idle"
    epoch,                 \* the loop variable of `for epoch in range(num_epochs)`
    batches_left,          \* rows of perms not yet consumed by train_epoch
    test_loss,             \* the value eval_model returned last
    eval_state,            \* the state eval_model was called with last
    train_losses,
    test_losses,
    best_test_loss,
    best_epoch,
    no_improve_epochs,
    current_lr,
    lr_no_improve_epochs,
    ckpt,                  \* contents of models/best_autoencoder.msgpack: <<>> or <<state_dict>>
    lr_log,                \* the learning rates printed at line 227, one per epoch
    \* ---- batch construction (train_epoch) ----
    train_ds_size,         \* len(train_ds)
    batch_size,
    perms,                 \* the reshaped permutation: one row per batch
    batches,               \* the rows already used to index train_ds.spectra
    perm_pc,               \* "start" | "loop" | "idle"
    \* ---- datasets (grids.py) ----
    grid_lam,              \* grid.lam, the wavelengths of the grid
    lh,                    \* what LHGridSpectra returned
    datasets,              \* <<root>>, then <<root, the last parent_dataset, the dataset built from it>>
    origins,               \* origins[k][i]: the row of the root that row i of datasets[k] is (history)
    split_arg,             \* the split argument of the last constructor call (history)
    data_pc                \* "new" | "built" | "raised" | "idle"

trainVars == <<cfg, state, pc, epoch, batches_left, test_loss, eval_state,
               train_losses, test_losses, best_test_loss, best_epoch,
               no_improve_epochs, current_lr, lr_no_improve_epochs, ckpt, lr_log>>

batchVars == <<train_ds_size, batch_size, perms, batches, perm_pc>>

dataVars == <<grid_lam, lh, datasets, origins, split_arg, data_pc>>

vars == <<trainVars, batchVars, dataVars>>

----------------------------------------------------------------------------
(* Bounds of the model. *)

MaxEpochs == 4

MaxLoss == 2

MaxTrainSize == 5

MaxBatchSize == 3

MaxSamples == 2

----------------------------------------------------------------------------
(* Floating-point scalars that can be non-finite: <<"num", v>>, NaN, +inf. *)

Num(v) == <<"num", v>>

NaN == <<"nan", 0>>

PosInf == <<"inf", 0>>

IsNum(a) == a[1] = "num"

\* a - d for a finite d: inf - d = inf, nan - d = nan
FSub(a, d) == IF IsNum(a) THEN Num(a[2] - d) ELSE a

\* a < b on floats: every comparison with NaN is False
FLess(a, b) ==
    /\ a # NaN
    /\ b # NaN
    /\ a # PosInf
    /\ (b = PosInf \/ a[2] < b[2])

\* round-to-nearest, ties-to-even quotient of integers n / d (d > 0, n >= 0)
RoundDiv(n, d) ==
    LET q == n \div d
        r == n % d
    IN  IF 2 * r < d THEN q
        ELSE IF 2 * r > d THEN q + 1
        ELSE IF q % 2 = 0 THEN q ELSE q + 1

\* current_lr * lr_factor, the factor a rational <<num, den>>, the product rounded
\* to the grid of representable learning rates
FMul(lr, f) == RoundDiv(lr * f[1], f[2])

\* Python's max(a, b)
Max(a, b) == IF b > a THEN b ELSE a

----------------------------------------------------------------------------
(* Inputs of train_and_evaluate. *)

NumEpochs == {0, 1, MaxEpochs}

BatchSizes == {2}

TrainSizes == {1, 4}

TestSizes == {1, 2}

LearningRates == {1, 8}

Patiences == {2, 4}

MinDeltas == {0, 1}

LrPatiences == {1, 2}

LrFactors == {<<1, 2>>, <<1, 1>>, <<2, 1>>}

MinLrs == {2}

LossVals == {Num(v) : v \in 0..MaxLoss} \cup {NaN}

Configs ==
    [num_epochs : NumEpochs, batch_size : BatchSizes, train_n : TrainSizes,
     test_n : TestSizes, learning_rate : LearningRates, patience : Patiences,
     min_delta : MinDeltas, lr_patience : LrPatiences, lr_factor : LrFactors,
     min_lr : MinLrs]

----------------------------------------------------------------------------
(* The training state and the functions acting on it. *)

\* the optax chain built from a learning rate; only the rate varies
MakeTx(lr) == [learning_rate |-> lr]

\* TrainState.create via create_train_state: step 0, fresh params, batch
\* statistics and optimizer state. params, batch_stats and opt_state are
\* abstracted to the number of updates each has received.
create_train_state(learning_rate) ==
    [step |-> 0, params |-> 0, batch_stats |-> 0, opt_state |-> 0,
     tx |-> MakeTx(learning_rate)]

\* train_step: apply_gradients gives new params and optimizer state and
\* increments step; the batch statistics are replaced by the mutated ones
train_step(st) ==
    [st EXCEPT !.step = @ + 1, !.params = @ + 1, !.opt_state = @ + 1,
               !.batch_stats = @ + 1]

\* the result of the replace discarded
replace_tx_discarded(st, tx) == st

\* the optimizer state initialised again for the new transformation
replace_tx_reinit(st, tx) == [st EXCEPT !.tx = tx, !.opt_state = 0]

\* state.replace(tx=tx): only the optimizer transformation changes
replace_tx(st, tx) == [st EXCEPT !.tx = tx]

\* steps_per_epoch of train_epoch and eval_model
StepsPerEpoch(n, b) == n \div b

\* the state_dict serialised into the checkpoint
state_dict(st) == [params |-> st.params, batch_stats |-> st.batch_stats, step |-> st.step]

\* an improvement of exactly min_delta accepted
ImprovedOrEqual(t, best, min_delta) ==
    FLess(t, FSub(best, min_delta)) \/ (IsNum(best) /\ t = FSub(best, min_delta))

\* a monitor that is maximised instead of minimised
ImprovedMaximised(t, best, min_delta) == FLess(FSub(best, min_delta), t)

\* the early-stopping test of line 230
Improved(t, best, min_delta) == FLess(t, FSub(best, min_delta))

\* the reduced rate without the floor
NewLrNoFloor(lr, factor, min_lr) == FMul(lr, factor)

\* new_lr of line 250
NewLr(lr, factor, min_lr) == Max(FMul(lr, factor), min_lr)

----------------------------------------------------------------------------
(* train_and_evaluate: lines 204-215, the state before the first epoch. *)

\* no grid sampled yet
EmptyLH == [spectra |-> <<>>, wavelength |-> <<>>, ages |-> <<>>, metallicities |-> <<>>]

\* the parts of the module a specification does not exercise stay idle
BatchIdle ==
    /\ train_ds_size = 0
    /\ batch_size = 1
    /\ perms = <<>>
    /\ batches = <<>>
    /\ perm_pc = "idle"

TrainIdle ==
    /\ cfg = <<>>
    /\ state = <<>>
    /\ pc = "idle"
    /\ epoch = 0
    /\ batches_left = 0
    /\ test_loss = NaN
    /\ eval_state = <<>>
    /\ train_losses = <<>>
    /\ test_losses = <<>>
    /\ best_test_loss = PosInf
    /\ best_epoch = 0
    /\ no_improve_epochs = 0
    /\ current_lr = 0
    /\ lr_no_improve_epochs = 0
    /\ ckpt = <<>>
    /\ lr_log = <<>>

DataIdle ==
    /\ grid_lam = <<>>
    /\ lh = EmptyLH
    /\ datasets = <<>>
    /\ origins = <<>>
    /\ split_arg = [none |-> TRUE, idx |-> <<>>]
    /\ data_pc = "idle"

TrainInit ==
    /\ BatchIdle
    /\ DataIdle
    /\ cfg \in Configs
    /\ state = create_train_state(cfg.learning_rate)
    /\ pc = IF cfg.num_epochs > 0 THEN "train" ELSE "done"
    /\ epoch = 0
    /\ batches_left = StepsPerEpoch(cfg.train_n, cfg.batch_size)
    /\ test_loss = NaN
    /\ eval_state = state
    /\ train_losses = <<>>
    /\ test_losses = <<>>
    /\ best_test_loss = PosInf
    /\ best_epoch = 0
    /\ no_improve_epochs = 0
    /\ current_lr = cfg.learning_rate
    /\ lr_no_improve_epochs = 0
    /\ ckpt = <<>>
    /\ lr_log = <<>>

\* one iteration of `for perm in perms` in train_epoch (lines 160-166)
TrainStep ==
    /\ pc = "train"
    /\ batches_left > 0
    /\ state' = train_step(state)
    /\ batches_left' = batches_left - 1
    /\ UNCHANGED <<cfg, pc, epoch, test_loss, eval_state, train_losses, test_losses,
                   best_test_loss, best_epoch, no_improve_epochs, current_lr,
                   lr_no_improve_epochs, ckpt, lr_log>>
    /\ UNCHANGED <<batchVars, dataVars>>

\* the value eval_model can return: the mean over the full test batches, NaN
\* when there is none (jnp.mean of an empty array)
EvalResults(test_n, b) ==
    IF StepsPerEpoch(test_n, b) = 0 THEN {NaN} ELSE LossVals

\* the state after eval_model(state, test_ds, batch_size): eval_step runs the
\* model with training=False and returns only the loss
eval_model(st) == st

\* train_epoch has consumed every batch; eval_model(state, ...) of line 220
EvalModel ==
    /\ pc = "train"
    /\ batches_left = 0
    /\ test_loss' \in EvalResults(cfg.test_n, cfg.batch_size)
    /\ eval_state' = state
    /\ state' = eval_model(state)
    /\ pc' = "check"
    /\ UNCHANGED <<cfg, epoch, batches_left, train_losses, test_losses,
                   best_test_loss, best_epoch, no_improve_epochs, current_lr,
                   lr_no_improve_epochs, ckpt, lr_log>>
    /\ UNCHANGED <<batchVars, dataVars>>

\* the total_loss train_epoch returns: a mean over the epoch's batches
TrainLoss(n, b) == IF StepsPerEpoch(n, b) = 0 THEN NaN ELSE Num(0)

\* whether line 249-251 reduces the learning rate, given the incremented counter
Reduces(cnt, lr) ==
    /\ cnt >= cfg.lr_patience
    /\ NewLr(lr, cfg.lr_factor, cfg.min_lr) # lr

\* stopping one epoch late
ShouldStopLate(no_improve, patience) == no_improve > patience

\* the early-stopping condition of line 269
ShouldStop(no_improve, patience) == no_improve >= patience

\* lines 222-272: bookkeeping, early-stopping check, checkpoint or counters,
\* learning-rate reduction, break or next epoch
EpochEnd ==
    /\ pc = "check"
    /\ train_losses' = Append(train_losses, TrainLoss(cfg.train_n, cfg.batch_size))
    /\ test_losses' = Append(test_losses, test_loss)
    /\ lr_log' = Append(lr_log, current_lr)
    /\ IF Improved(test_loss, best_test_loss, cfg.min_delta)
       THEN /\ best_test_loss' = test_loss
            /\ best_epoch' = epoch
            /\ no_improve_epochs' = 0
            /\ lr_no_improve_epochs' = 0
            /\ ckpt' = <<state_dict(state)>>
            /\ UNCHANGED <<current_lr, state>>
       ELSE /\ no_improve_epochs' = no_improve_epochs + 1
            /\ IF Reduces(lr_no_improve_epochs + 1, current_lr)
               THEN /\ current_lr' = NewLr(current_lr, cfg.lr_factor, cfg.min_lr)
                    /\ lr_no_improve_epochs' = 0
                    /\ state' = replace_tx(state, MakeTx(current_lr'))
               ELSE /\ lr_no_improve_epochs' = lr_no_improve_epochs + 1
                    /\ UNCHANGED <<current_lr, state>>
            /\ UNCHANGED <<best_test_loss, best_epoch, ckpt>>
    /\ IF ShouldStop(no_improve_epochs', cfg.patience)
       THEN /\ pc' = "done"
            /\ UNCHANGED <<epoch, batches_left>>
       ELSE IF epoch + 1 < cfg.num_epochs
            THEN /\ pc' = "train"
                 /\ epoch' = epoch + 1
                 /\ batches_left' = StepsPerEpoch(cfg.train_n, cfg.batch_size)
            ELSE /\ pc' = "done"
                 /\ UNCHANGED <<epoch, batches_left>>
    /\ UNCHANGED <<cfg, test_loss, eval_state>>
    /\ UNCHANGED <<batchVars, dataVars>>

TrainNext == TrainStep \/ EvalModel \/ EpochEnd

Init == TrainInit

Next == TrainNext

Spec == Init /\ [][Next]_vars

\* the loop is a single synchronous thread: a step that can be taken is taken
LiveSpec == Spec /\ WF_vars(Next)

----------------------------------------------------------------------------
(* The run's history, replayed from test_losses alone. *)

\* the lowest test loss that counted as an improvement in epochs 1..k
RECURSIVE BestAfter(_)
BestAfter(k) ==
    IF k = 0 THEN PosInf
    ELSE IF Improved(test_losses[k], BestAfter(k - 1), cfg.min_delta)
         THEN test_losses[k]
         ELSE BestAfter(k - 1)

\* the number of consecutive epochs without improvement that end with epoch k
RECURSIVE NoImproveRun(_)
NoImproveRun(k) ==
    IF k = 0 THEN 0
    ELSE IF Improved(test_losses[k], BestAfter(k - 1), cfg.min_delta)
         THEN 0
         ELSE NoImproveRun(k - 1) + 1

EpochsRun == Len(test_losses)

EarlyStopped == pc = "done" /\ no_improve_epochs >= cfg.patience

\* the state_dict of the training state at the end of epoch k (1-based)
EpochStateDict(k) ==
    LET n == k * StepsPerEpoch(cfg.train_n, cfg.batch_size)
    IN  [params |-> n, batch_stats |-> n, step |-> n]

\* the learning rate in force after epoch i - 1 (the one printed in epoch i)
LrAt(i) == IF i <= Len(lr_log) THEN lr_log[i] ELSE current_lr

\* the epochs at whose end the learning rate was changed
ReductionEpochs == {i \in 1..Len(lr_log) : LrAt(i + 1) # LrAt(i)}

----------------------------------------------------------------------------
(* C2 *)

\* C2 (as claimed): after early stopping, the checkpoint last written is the
\* training state of an epoch whose test loss is the minimum of all the test
\* losses observed, whatever min_delta >= 0 is.
C2_CheckpointIsMinimum ==
    (EarlyStopped /\ ckpt # <<>>) =>
        /\ ckpt[1] = EpochStateDict(best_epoch + 1)
        /\ \A i \in 1..EpochsRun : ~FLess(test_losses[i], test_losses[best_epoch + 1])

\* C2 (amended): after early stopping, a checkpoint has been written exactly
\* when some epoch's test loss was a number; it is the training state of epoch
\* best_epoch, whose test loss is best_test_loss, and no observed test loss is
\* below that loss minus min_delta (so it is the minimum when min_delta = 0).
C2_CheckpointWithinMinDelta ==
    EarlyStopped =>
        /\ (ckpt = <<>>) <=> (\A i \in 1..EpochsRun : ~IsNum(test_losses[i]))
        /\ ckpt # <<>> =>
            /\ ckpt[1] = EpochStateDict(best_epoch + 1)
            /\ test_losses[best_epoch + 1] = best_test_loss
            /\ \A i \in 1..EpochsRun :
                 ~FLess(test_losses[i], FSub(best_test_loss, cfg.min_delta))
            /\ cfg.min_delta = 0 =>
                 \A i \in 1..EpochsRun : ~FLess(test_losses[i], best_test_loss)

\* early stopping after a later epoch came within min_delta below the saved one
C2_Witness ==
    /\ EarlyStopped
    /\ ckpt # <<>>
    /\ cfg.min_delta > 0
    /\ \E i \in 1..EpochsRun : FLess(test_losses[i], best_test_loss)

----------------------------------------------------------------------------
(* C3 *)

\* the learning rates of the run in order: one per epoch, then the current one
LrHistory == Append(lr_log, current_lr)

LrNonIncreasingAboveFloor ==
    /\ \A i \in 1..Len(LrHistory) : LrHistory[i] >= cfg.min_lr
    /\ \A i \in 1..(Len(LrHistory) - 1) : LrHistory[i + 1] <= LrHistory[i]

\* C3 (as claimed): whatever learning_rate, lr_factor, lr_patience and min_lr
\* are, the learning rate never increases from one epoch to the next and is
\* never below min_lr.
C3_LrMonotoneForAnyConfig == LrNonIncreasingAboveFloor

\* 0 <= lr_factor <= 1 and learning_rate >= max(min_lr, 0)
SaneLrConfig ==
    /\ 0 <= cfg.lr_factor[1]
    /\ cfg.lr_factor[1] <= cfg.lr_factor[2]
    /\ cfg.learning_rate >= cfg.min_lr
    /\ cfg.learning_rate >= 0

\* C3 (amended): when 0 <= lr_factor <= 1 and learning_rate >= max(min_lr, 0),
\* the learning rate never increases from one epoch to the next and is never
\* below min_lr.
C3_LrMonotoneForSaneConfig == SaneLrConfig => LrNonIncreasingAboveFloor

\* the rate has been reduced and has reached the floor
C3_Witness ==
    /\ SaneLrConfig
    /\ Cardinality(ReductionEpochs) >= 2
    /\ current_lr = cfg.min_lr
    /\ current_lr < cfg.learning_rate

----------------------------------------------------------------------------
(* C7 *)

\* the loop has ended exactly when, at the end of an epoch, either `patience`
\* consecutive epochs without improvement have passed or num_epochs epochs have
\* run; both loss lists have one entry per epoch run
StopsWhenDue ==
    /\ Len(train_losses) = EpochsRun
    /\ EpochsRun <= cfg.num_epochs
    /\ pc = "done" <=>
         \/ EpochsRun = cfg.num_epochs
         \/ (EpochsRun > 0 /\ NoImproveRun(EpochsRun) >= cfg.patience)
    /\ \A k \in 1..(EpochsRun - 1) : NoImproveRun(k) < cfg.patience

\* C7: train_and_evaluate terminates; it stops at the end of the first epoch
\* that completes `patience` consecutive epochs without improvement and
\* otherwise after exactly num_epochs epochs, with one entry of train_losses
\* and of test_losses per epoch run and at most num_epochs epochs.
C7_Terminates == []StopsWhenDue /\ <>(pc = "done")

\* the loop was left by the break, before num_epochs epochs had run
C7_Witness ==
    /\ pc = "done"
    /\ EpochsRun > 0
    /\ EpochsRun < cfg.num_epochs
    /\ NoImproveRun(EpochsRun) = cfg.patience

----------------------------------------------------------------------------
(* C8 *)

\* a - b on floats: NaN if either is NaN, +inf for inf - finite
FDiff(a, b) ==
    IF a = NaN \/ b = NaN THEN NaN
    ELSE IF a = PosInf THEN PosInf
    ELSE Num(a[2] - b[2])

\* the improvement of this epoch's test loss over the best so far
Improvement == FDiff(best_test_loss, test_loss)

CountsAsImprovement ==
    /\ ckpt' = <<state_dict(state)>>
    /\ no_improve_epochs' = 0
    /\ lr_no_improve_epochs' = 0

\* C8 (as claimed, for epochs whose test loss is a number): an epoch is a
\* no-improvement epoch exactly when its improvement is less than min_delta; it
\* then writes no checkpoint and adds 1 to no_improve_epochs; any other epoch,
\* one improving by exactly min_delta included, writes a checkpoint and resets
\* both counters to 0.
C8_ThresholdExclusive ==
    [][(pc = "check" /\ IsNum(test_loss)) =>
         IF FLess(Improvement, Num(cfg.min_delta))
         THEN /\ ckpt' = ckpt
              /\ no_improve_epochs' = no_improve_epochs + 1
         ELSE CountsAsImprovement]_vars

\* C8 (amended): an epoch is an improvement exactly when its improvement is
\* greater than min_delta (test_loss < best_test_loss - min_delta); it then
\* writes a checkpoint and resets both counters to 0. Every other epoch, one
\* improving by exactly min_delta or with a NaN test loss included, writes no
\* checkpoint, adds 1 to no_improve_epochs and adds 1 to lr_no_improve_epochs,
\* unless the learning rate is reduced in that epoch, which resets
\* lr_no_improve_epochs to 0.
C8_ThresholdInclusive ==
    [][pc = "check" =>
         IF FLess(Num(cfg.min_delta), Improvement)
         THEN CountsAsImprovement
         ELSE /\ ckpt' = ckpt
              /\ no_improve_epochs' = no_improve_epochs + 1
              /\ IF current_lr' # current_lr
                 THEN lr_no_improve_epochs' = 0
                 ELSE lr_no_improve_epochs' = lr_no_improve_epochs + 1]_vars

\* the last epoch improved on the best loss by exactly min_delta > 0 and was
\* counted as a no-improvement epoch
C8_Witness ==
    /\ pc # "check"
    /\ EpochsRun >= 2
    /\ cfg.min_delta > 0
    /\ FDiff(best_test_loss, test_losses[EpochsRun]) = Num(cfg.min_delta)
    /\ no_improve_epochs >= 1
    /\ ckpt # <<>>
    /\ ckpt[1] # state_dict(state)

----------------------------------------------------------------------------
(* C9 *)

\* every change of the learning rate happened at the end of an epoch that
\* completed lr_patience consecutive no-improvement epochs, none of which but
\* the last changed the rate; the optimizer carries the current rate
ReductionsSpaced ==
    /\ state.tx = MakeTx(current_lr)
    /\ pc # "check" =>
         \A i \in ReductionEpochs :
            /\ NoImproveRun(i) >= cfg.lr_patience
            /\ \A j \in ReductionEpochs : j < i => i - j >= cfg.lr_patience

ReductionStep ==
    current_lr' # current_lr =>
        /\ pc = "check"
        /\ ~Improved(test_loss, best_test_loss, cfg.min_delta)
        /\ lr_no_improve_epochs + 1 >= cfg.lr_patience
        /\ current_lr' = Max(FMul(current_lr, cfg.lr_factor), cfg.min_lr)
        /\ state'.tx = MakeTx(current_lr')
        /\ lr_no_improve_epochs' = 0

\* C9: the learning rate changes only at the end of a no-improvement epoch that
\* completes lr_patience consecutive no-improvement epochs since the last
\* improvement or reduction; it becomes max(current_lr * lr_factor, min_lr), the
\* optimizer of the following epochs is rebuilt with it and the counter
\* restarts from 0, so two reductions are at least lr_patience epochs apart.
C9_ReductionRule == []ReductionsSpaced /\ [][ReductionStep]_vars

\* two reductions, lr_patience > 1 epochs apart
C9_Witness ==
    /\ pc = "done"
    /\ cfg.lr_patience > 1
    /\ Cardinality(ReductionEpochs) >= 2
    /\ current_lr = cfg.min_lr
    /\ current_lr < cfg.learning_rate

----------------------------------------------------------------------------
(* C10 *)

Snapshot(st) ==
    [params |-> st.params, batch_stats |-> st.batch_stats,
     opt_state |-> st.opt_state, step |-> st.step]

\* step counts the batches trained: floor(train_n / batch_size) per epoch
StepCount ==
    LET spe == cfg.train_n \div cfg.batch_size
    IN  /\ pc = "train" => state.step = epoch * spe + (spe - batches_left)
        /\ pc = "check" => state.step = (epoch + 1) * spe
        /\ pc = "done" => state.step = EpochsRun * spe

SnapshotFrame ==
    /\ Snapshot(state') # Snapshot(state) =>
         /\ pc = "train"
         /\ batches_left > 0
         /\ state'.step = state.step + 1
    /\ pc = "check" =>
         /\ Snapshot(state) = Snapshot(eval_state)
         /\ ckpt' # ckpt => ckpt' = <<state_dict(eval_state)>>

\* C10: params, batch_stats, opt_state and step change only in train_step;
\* evaluation, the checkpoint write and the learning-rate reduction leave them
\* unchanged, so a checkpoint holds the params, batch_stats and step of the
\* state just evaluated, and step grows by floor(len(train_ds)/batch_size)
\* per epoch.
C10_SnapshotFrame == []StepCount /\ [][SnapshotFrame]_vars

\* a checkpoint written after training steps, followed by a learning-rate
\* reduction and further training
C10_Witness ==
    /\ ckpt # <<>>
    /\ ckpt[1].step > 0
    /\ state.step > ckpt[1].step
    /\ ReductionEpochs # {}
    /\ state.opt_state = state.step

----------------------------------------------------------------------------
(* train_epoch: the construction of the batches (lines 147-166). *)

\* indices drawn with replacement
permutation_with_replacement(n) == [1..n -> 0..(n - 1)]

\* jax.random.permutation(rng, n): the arrangements of 0..n-1
permutation(n) ==
    {p \in [1..n -> 0..(n - 1)] : \A i, j \in 1..n : p[i] = p[j] => i = j}

\* flat.reshape((rows, cols)) of a row-major array
reshape(flat, rows, cols) ==
    [r \in 1..rows |-> [c \in 1..cols |-> flat[(r - 1) * cols + c]]]

\* perms of lines 152-154 for the permutation p
Perms(p, n, b) ==
    LET steps_per_epoch == StepsPerEpoch(n, b)
    IN  reshape(SubSeq(p, 1, steps_per_epoch * b), steps_per_epoch, b)

BatchInit ==
    /\ TrainIdle
    /\ DataIdle
    /\ train_ds_size \in 0..MaxTrainSize
    /\ batch_size \in 1..MaxBatchSize
    /\ perms = <<>>
    /\ batches = <<>>
    /\ perm_pc = "start"

\* lines 149-158: a fresh permutation, truncated and reshaped
Permute ==
    /\ perm_pc = "start"
    /\ \E p \in permutation(train_ds_size) :
          perms' = Perms(p, train_ds_size, batch_size)
    /\ batches' = <<>>
    /\ perm_pc' = "loop"
    /\ UNCHANGED <<train_ds_size, batch_size, trainVars, dataVars>>

\* one iteration of `for perm in perms`: batch = train_ds.spectra[perm]
TakeBatch ==
    /\ perm_pc = "loop"
    /\ Len(batches) < Len(perms)
    /\ batches' = Append(batches, perms[Len(batches) + 1])
    /\ UNCHANGED <<train_ds_size, batch_size, perms, perm_pc, trainVars, dataVars>>

\* line 168: train_epoch returns; the next epoch calls it again
ReturnFromEpoch ==
    /\ perm_pc = "loop"
    /\ Len(batches) = Len(perms)
    /\ perms' = <<>>
    /\ batches' = <<>>
    /\ perm_pc' = "start"
    /\ UNCHANGED <<train_ds_size, batch_size, trainVars, dataVars>>

BatchNext == Permute \/ TakeBatch \/ ReturnFromEpoch

BatchSpec == BatchInit /\ [][BatchNext]_vars

----------------------------------------------------------------------------
(* C4 *)

\* the indices used by the batches taken so far
UsedIndices == {batches[r][c] : r \in 1..Len(batches), c \in 1..batch_size}

\* C4: train_epoch builds floor(n/b) batches of exactly b indices of 0..n-1 out
\* of one permutation; no index occurs twice in a batch or in two batches of
\* the epoch, and n mod b <= b - 1 samples are left unused.
C4_Batches ==
    perm_pc = "loop" =>
        /\ Len(perms) = train_ds_size \div batch_size
        /\ \A r \in 1..Len(perms) :
              /\ Len(perms[r]) = batch_size
              /\ \A c \in 1..batch_size : perms[r][c] \in 0..(train_ds_size - 1)
              /\ \A c, d \in 1..batch_size : perms[r][c] = perms[r][d] => c = d
        /\ \A r, q \in 1..Len(perms) : \A c, d \in 1..batch_size :
              perms[r][c] = perms[q][d] => (r = q /\ c = d)
        /\ batches = SubSeq(perms, 1, Len(batches))
        /\ Len(batches) = Len(perms) =>
              /\ Cardinality((0..(train_ds_size - 1)) \ UsedIndices)
                   = train_ds_size % batch_size
              /\ train_ds_size % batch_size <= batch_size - 1

\* an epoch of several batches that leaves a remainder unused
C4_Witness ==
    /\ perm_pc = "loop"
    /\ Len(perms) >= 2
    /\ batch_size >= 2
    /\ Len(batches) = Len(perms)
    /\ train_ds_size % batch_size > 0

----------------------------------------------------------------------------
(* Array arithmetic of grids.py. A float is a reduced fraction <<n, d>> with  *)
(* d > 0; <<0, 0>> stands for a non-finite result (nan, inf). Sums, products  *)
(* and quotients are exact, the square root is rounded down to a multiple of  *)
(* 1/d.                                                                      *)

Abs(n) == IF n < 0 THEN -n ELSE n

RECURSIVE GCD(_, _)
GCD(a, b) == IF b = 0 THEN a ELSE GCD(b, a % b)

RNaN == <<0, 0>>

RNorm(n, d) ==
    IF d = 0 THEN RNaN
    ELSE LET g == GCD(Abs(n), Abs(d))
             sgn == IF d < 0 THEN -1 ELSE 1
         IN  <<(sgn * n) \div g, (sgn * d) \div g>>

RInt(k) == <<k, 1>>

RAdd(a, b) ==
    IF a = RNaN \/ b = RNaN THEN RNaN
    ELSE RNorm(a[1] * b[2] + b[1] * a[2], a[2] * b[2])

RSub(a, b) ==
    IF a = RNaN \/ b = RNaN THEN RNaN
    ELSE RNorm(a[1] * b[2] - b[1] * a[2], a[2] * b[2])

RMul(a, b) ==
    IF a = RNaN \/ b = RNaN THEN RNaN
    ELSE RNorm(a[1] * b[1], a[2] * b[2])

\* a / b: x / 0 is inf or nan
RDiv(a, b) ==
    IF a = RNaN \/ b = RNaN \/ b[1] = 0 THEN RNaN
    ELSE RNorm(a[1] * b[2], a[2] * b[1])

\* float equality: a non-finite value equals nothing
REq(a, b) == a # RNaN /\ b # RNaN /\ a = b

ISqrt(k) == CHOOSE r \in 0..k : r * r <= k /\ k < (r + 1) * (r + 1)

RSqrt(a) == IF a = RNaN THEN RNaN ELSE RNorm(ISqrt(a[1] * a[2]), a[2])

RECURSIVE RSum(_)
RSum(xs) == IF xs = <<>> THEN RInt(0) ELSE RAdd(Head(xs), RSum(Tail(xs)))

\* xs.mean()
Mean(xs) == RDiv(RSum(xs), RInt(Len(xs)))

\* xs.std(): the root of the mean squared deviation
Std(xs) ==
    LET m == Mean(xs)
    IN  RSqrt(Mean([i \in 1..Len(xs) |-> RMul(RSub(xs[i], m), RSub(xs[i], m))]))

\* np.log10 of a positive power of ten
RECURSIVE Log10(_)
Log10(x) == IF x = 1 THEN 0 ELSE 1 + Log10(x \div 10)

\* M[:, k]
Column(M, k) == [i \in 1..Len(M) |-> M[i][k]]

\* arr[idx] for a sequence idx of 0-based row indices
TakeRows(arr, idx) == [j \in 1..Len(idx) |-> arr[idx[j] + 1]]

RECURSIVE Flatten(_)
Flatten(M) == IF M = <<>> THEN <<>> ELSE Head(M) \o Flatten(Tail(M))

----------------------------------------------------------------------------
(* LHGridSpectra (grids.py lines 75-106). *)

LamMin == 1000

LamMax == 10000

\* the limits included
InWindowInclusive(w) == w >= LamMin /\ w <= LamMax

\* mask = (grid.lam > 1000 * angstrom) & (grid.lam < 10000 * angstrom)
InWindow(w) == w > LamMin /\ w < LamMax

\* the positions of grid.lam that the mask selects, in order
RECURSIVE MaskIdx(_, _)
MaskIdx(lam, k) ==
    IF k > Len(lam) THEN <<>>
    ELSE IF InWindow(lam[k]) THEN <<k>> \o MaskIdx(lam, k + 1)
    ELSE MaskIdx(lam, k + 1)

\* grids: ascending wavelengths, with entries on and around both limits
Grids == {<<1000, 4000, 10000>>, <<999, 1001, 9999, 10001>>, <<1000, 10000>>}

\* sampler.random(n): a Latin hypercube in two dimensions; every stratum of
\* each dimension holds exactly one sample, so the n values of a dimension are
\* distinct. A sample is <<stratum of age, stratum of metallicity>>.
LatinHypercube(n) ==
    {[i \in 1..n |-> <<p[i], q[i]>>] : p \in permutation(n), q \in permutation(n)}

\* qmc.scale: strata of unit width above the lower limits of the grid
Scale(sample) == [age |-> 1 + sample[1], met |-> 1 + sample[2]]

\* 10 ** e
RECURSIVE Pow10(_)
Pow10(e) == IF e = 0 THEN 1 ELSE 10 * Pow10(e - 1)

\* stars.get_spectra(emodel): the luminosity the grid gives a star at grid
\* position k, a function of its age and metallicity that differs between any
\* two ages
Lnu(star, k) == Pow10(2 * (star.age - 1) + ((star.met * k) % 2))

\* the tuple LHGridSpectra returns for the samples drawn
LHGridSpectra(lam, samples) ==
    LET mask == MaskIdx(lam, 1)
        stars == [i \in 1..Len(samples) |-> Scale(samples[i])]
    IN  [spectra |-> [i \in 1..Len(stars) |->
                        [j \in 1..Len(mask) |-> Lnu(stars[i], mask[j])]],
         wavelength |-> [j \in 1..Len(mask) |-> lam[mask[j]]],
         ages |-> [i \in 1..Len(stars) |-> RInt(stars[i].age)],
         metallicities |-> [i \in 1..Len(stars) |-> RInt(stars[i].met)]]

----------------------------------------------------------------------------
(* SpectralDatasetSynthesizer (grids.py lines 109-181). *)

\* (xs - mean) / std, elementwise
Normalize(xs, mean, std) == [i \in 1..Len(xs) |-> RDiv(RSub(xs[i], mean), std)]

\* lines 131-155: a new dataset from what LHGridSpectra returned
Root(res) ==
    LET n_wavelength == Len(res.wavelength)
        age_mean == Mean(res.ages)
        age_std == Std(res.ages)
        met_mean == Mean(res.metallicities)
        met_std == Std(res.metallicities)
        norm_ages == Normalize(res.ages, age_mean, age_std)
        norm_mets == Normalize(res.metallicities, met_mean, met_std)
        flat == Flatten(res.spectra)
        reshaped == reshape(flat, Len(flat) \div n_wavelength, n_wavelength)
        logged == [i \in 1..Len(reshaped) |->
                     [k \in 1..n_wavelength |-> RInt(Log10(reshaped[i][k]))]]
        spec_mean == [k \in 1..n_wavelength |-> Mean(Column(logged, k))]
        spec_std == [k \in 1..n_wavelength |-> Std(Column(logged, k))]
    IN  [spectra |-> [i \in 1..Len(logged) |->
                        [k \in 1..n_wavelength |->
                           RDiv(RSub(logged[i][k], spec_mean[k]), spec_std[k])]],
         wavelength |-> res.wavelength,
         ages |-> res.ages,
         metallicities |-> res.metallicities,
         conditions |-> [i \in 1..Len(norm_ages) |-> <<norm_ages[i], norm_mets[i]>>],
         n_wavelength |-> n_wavelength,
         spec_mean |-> spec_mean,
         spec_std |-> spec_std,
         age_mean |-> age_mean,
         age_std |-> age_std,
         met_mean |-> met_mean,
         met_std |-> met_std]

\* lines 112-127: every field is taken from the parent
Inherit(parent) == parent

\* the raw ages left whole: line 160 dropped
ApplySplitAgesWhole(ds, split) ==
    IF split.none THEN ds
    ELSE [ds EXCEPT !.spectra = TakeRows(@, split.idx),
                    !.metallicities = TakeRows(@, split.idx),
                    !.conditions = TakeRows(@, split.idx)]

\* the statistics of ages and metallicities computed again after the split
ApplySplitRenormalised(ds, split) ==
    IF split.none THEN ds
    ELSE [ds EXCEPT !.spectra = TakeRows(@, split.idx),
                    !.ages = TakeRows(@, split.idx),
                    !.metallicities = TakeRows(@, split.idx),
                    !.conditions = TakeRows(@, split.idx),
                    !.age_mean = Mean(TakeRows(ds.ages, split.idx)),
                    !.age_std = Std(TakeRows(ds.ages, split.idx)),
                    !.met_mean = Mean(TakeRows(ds.metallicities, split.idx)),
                    !.met_std = Std(TakeRows(ds.metallicities, split.idx))]

\* lines 157-162: the split indexes the four arrays; split.none is split=None
ApplySplit(ds, split) ==
    IF split.none THEN ds
    ELSE [ds EXCEPT !.spectra = TakeRows(@, split.idx),
                    !.ages = TakeRows(@, split.idx),
                    !.metallicities = TakeRows(@, split.idx),
                    !.conditions = TakeRows(@, split.idx)]

unnormalize_spectrum(ds, spectrum) ==
    [k \in 1..Len(spectrum) |-> RAdd(RMul(spectrum[k], ds.spec_std[k]), ds.spec_mean[k])]

unnormalize_age(ds, norm_age) == RAdd(RMul(norm_age, ds.age_std), ds.age_mean)

unnormalize_metallicity(ds, norm_met) == RAdd(RMul(norm_met, ds.met_std), ds.met_mean)

\* the sequences of distinct row indices 0..n-1, of every length
IndexSeqs(n) ==
    UNION {{q \in [1..m -> 0..(n - 1)] : \A i, j \in 1..m : q[i] = q[j] => i = j} :
             m \in 0..n}

\* __len__ (lines 177-178)
len(ds) == Len(ds.conditions)

\* __getitem__ (lines 180-181), idx a 0-based row index
getitem(ds, idx) == <<ds.conditions[idx + 1], ds.spectra[idx + 1]>>

NoSplit == [none |-> TRUE, idx |-> <<>>]

SplitArgs(n) == {NoSplit} \cup {[none |-> FALSE, idx |-> q] : q \in IndexSeqs(n)}

DataInit ==
    /\ TrainIdle
    /\ BatchIdle
    /\ grid_lam \in Grids
    /\ lh = EmptyLH
    /\ datasets = <<>>
    /\ origins = <<>>
    /\ split_arg = NoSplit
    /\ data_pc = "new"

\* SpectralDatasetSynthesizer(grid_dir, grid_name, num_samples): reshape(-1, 0)
\* raises when the mask keeps no wavelength
BuildRoot ==
    /\ data_pc = "new"
    /\ \E num_samples \in 1..MaxSamples : \E samples \in LatinHypercube(num_samples) :
          LET res == LHGridSpectra(grid_lam, samples)
          IN  /\ lh' = res
              /\ IF Len(res.wavelength) = 0
                 THEN /\ data_pc' = "raised"
                      /\ UNCHANGED <<datasets, origins>>
                 ELSE /\ data_pc' = "built"
                      /\ datasets' = <<ApplySplit(Root(res), NoSplit)>>
                      /\ origins' = <<[i \in 1..num_samples |-> i - 1]>>
    /\ UNCHANGED <<grid_lam, split_arg, trainVars, batchVars>>

\* SpectralDatasetSynthesizer(parent_dataset=datasets[p], split=split), the
\* parent any dataset at hand; the root, that parent and the new dataset are kept
Derive ==
    /\ data_pc = "built"
    /\ \E p \in 1..Len(datasets) : \E split \in SplitArgs(Len(datasets[p].conditions)) :
          /\ datasets' = <<datasets[1], datasets[p],
                           ApplySplit(Inherit(datasets[p]), split)>>
          /\ origins' = <<origins[1], origins[p],
                          IF split.none THEN origins[p]
                          ELSE TakeRows(origins[p], split.idx)>>
          /\ split_arg' = split
    /\ UNCHANGED <<grid_lam, lh, data_pc, trainVars, batchVars>>

DataNext == BuildRoot \/ Derive

DataSpec == DataInit /\ [][DataNext]_vars

----------------------------------------------------------------------------
(* C1 *)

Stats(ds) ==
    <<ds.spec_mean, ds.spec_std, ds.age_mean, ds.age_std, ds.met_mean, ds.met_std>>

\* C1: a derived dataset carries the six statistics of its parent, hence of
\* the root, whatever the index subset and the depth; constructing it changes
\* neither the root nor the parent.
C1_SplitKeepsStats ==
    /\ [](Len(datasets) = 3 =>
            /\ Stats(datasets[3]) = Stats(datasets[2])
            /\ Stats(datasets[3]) = Stats(datasets[1]))
    /\ [][Len(datasets) >= 1 =>
            /\ datasets'[1] = datasets[1]
            /\ \E p \in 1..Len(datasets) : datasets'[2] = datasets[p]]_vars

\* a split of a split of the root, whose own mean age is not the one it carries
C1_Witness ==
    /\ Len(datasets) = 3
    /\ origins[2] # origins[1]
    /\ origins[3] # origins[2]
    /\ Len(datasets[3].ages) >= 1
    /\ datasets[3].age_mean # RNaN
    /\ Mean(datasets[3].ages) # datasets[3].age_mean

----------------------------------------------------------------------------
(* C5 *)

\* the log-spectrum of row i of datasets[k] before normalisation (line 148)
LogSpectrum(k, i) ==
    [w \in 1..datasets[k].n_wavelength |->
        RInt(Log10(lh.spectra[origins[k][i] + 1][w]))]

\* C5: for every dataset and every sample i in it, unnormalize_age of its
\* normalised age is ages[i], unnormalize_metallicity of its normalised
\* metallicity is metallicities[i] and unnormalize_spectrum of its normalised
\* spectrum is the spectrum before normalisation.
C5_RoundTrip ==
    \A k \in 1..Len(datasets) :
        LET ds == datasets[k]
        IN  \A i \in 1..Len(ds.conditions) :
               /\ REq(unnormalize_age(ds, ds.conditions[i][1]), ds.ages[i])
               /\ REq(unnormalize_metallicity(ds, ds.conditions[i][2]), ds.metallicities[i])
               /\ \A w \in 1..ds.n_wavelength :
                     REq(unnormalize_spectrum(ds, ds.spectra[i])[w], LogSpectrum(k, i)[w])

----------------------------------------------------------------------------
(* C6 *)

\* C6: the spectra of a root dataset built from N samples have shape
\* (N, n_wavelength), n_wavelength being the number of grid wavelengths kept;
\* the wavelengths kept are exactly the grid wavelengths w with
\* 1000 < w < 10000, limits excluded.
C6_RootShape ==
    data_pc = "built" =>
        LET root == datasets[1]
            inside == {k \in 1..Len(grid_lam) : 1000 < grid_lam[k] /\ grid_lam[k] < 10000}
        IN  /\ Len(root.spectra) = Len(lh.ages)
            /\ \A i \in 1..Len(root.spectra) : Len(root.spectra[i]) = root.n_wavelength
            /\ root.n_wavelength = Len(root.wavelength)
            /\ root.n_wavelength = Cardinality(inside)
            /\ \A j \in 1..Len(root.wavelength) :
                  1000 < root.wavelength[j] /\ root.wavelength[j] < 10000
            /\ \A k \in inside : \E j \in 1..Len(root.wavelength) :
                  root.wavelength[j] = grid_lam[k]

\* a root of several samples built from a grid with wavelengths on the limits
C6_Witness ==
    /\ data_pc = "built"
    /\ Len(datasets[1].spectra) >= 2
    /\ \E k \in 1..Len(grid_lam) : grid_lam[k] = 1000
    /\ \E k \in 1..Len(grid_lam) : grid_lam[k] = 10000
    /\ datasets[1].n_wavelength >= 1

----------------------------------------------------------------------------
(* C11 *)

\* the four parallel arrays of a dataset, row i of each side by side
Row(ds, i) == <<ds.spectra[i], ds.ages[i], ds.metallicities[i], ds.conditions[i]>>

\* the four arrays of ds have one length, which is len(ds)
SameLength(ds) ==
    /\ Len(ds.spectra) = len(ds)
    /\ Len(ds.ages) = len(ds)
    /\ Len(ds.metallicities) = len(ds)
    /\ Len(ds.conditions) = len(ds)

\* C11: after any sequence of split derivations the four parallel arrays of
\* the new dataset have one length, which is len(dataset) and the number of
\* indices of the last split; row i of every array is row split[i] of the
\* parent's, hence all four rows belong to one sample of the root, and
\* __getitem__(i) returns that sample's conditions and spectrum; wavelength
\* and n_wavelength are the parent's.
C11_ArraysAligned ==
    /\ \A k \in 1..Len(datasets) :
          /\ SameLength(datasets[k])
          /\ \A i \in 1..len(datasets[k]) :
                /\ Row(datasets[k], i) = Row(datasets[1], origins[k][i] + 1)
                /\ getitem(datasets[k], i - 1) =
                      getitem(datasets[1], origins[k][i])
    /\ Len(datasets) = 3 =>
          LET parent == datasets[2]
              child == datasets[3]
          IN  /\ child.wavelength = parent.wavelength
              /\ child.n_wavelength = parent.n_wavelength
              /\ IF split_arg.none
                 THEN \A i \in 1..len(parent) : Row(child, i) = Row(parent, i)
                 ELSE /\ len(child) = Len(split_arg.idx)
                      /\ \A i \in 1..Len(split_arg.idx) :
                            Row(child, i) = Row(parent, split_arg.idx[i] + 1)

\* a split of a split, the last one reordering its parent's rows, of samples
\* whose raw ages differ
C11_Witness ==
    /\ Len(datasets) = 3
    /\ ~split_arg.none
    /\ Len(split_arg.idx) >= 2
    /\ split_arg.idx[1] > split_arg.idx[2]
    /\ origins[2] # origins[1]
    /\ datasets[3].ages[1] # datasets[3].ages[2]

=============================================================================
